---- MODULE Spec2Model ----
(***************************************************************************)
(* Model of scripts/generate_subtitles.py: the subtitle batch generator.   *)
(* The remote store (Cloudinary), the HTTP download, ffmpeg, the           *)
(* recognition engine and the file system are the environment: each call   *)
(* either returns or raises, chosen nondeterministically.                  *)
(***************************************************************************)
EXTENDS Integers, Sequences, FiniteSets, TLC

(* ---------------- bounds ---------------- *)
MaxVideos == 3
MaxRuns == 2
MaxCatalog == 250
MaxMillis == 2100
MaxSegs == 2

(* ---------------- program constants ---------------- *)
LANG == "es"
MaxResults == 100

VARIABLES
  apiKey, apiSecret,  \* API_KEY / API_SECRET are set (truthy)
  argv1,              \* sys.argv[1], or NoArg when len(sys.argv) = 1
  catalog,            \* the store's video catalog (stable), a sequence of ids
  pageCap,            \* the store's own limit on the size of a page
  store,              \* raw artifacts of the store: name -> who wrote it,
                      \* "old" (before this process) or "new" (this process)
  run,                \* number of the current process run
  pc,                 \* position of the process: module level, main, batch
  videos, nextCursor, \* locals of get_all_videos
  fetches, listFailed,\* history: api.resources calls made / one of them raised
  idx, processed, failed, \* locals of process_all_videos
  vpc,                \* position inside process_video
  cur,                \* public_id of the running process_video call
  ret,                \* value process_video is about to return
  lookup,             \* history: outcome of api.resource for this call
  ws,                 \* temp_dir of the running call, or NoDir
  dirs, files,        \* temporary directories made by this process, their files
  steplog,            \* history: pipeline steps attempted by this call
  storeAtCall,        \* history: store when this call began
  invoked,            \* history: public_ids process_video was called with
  results,            \* history: outcome of each finished call of this run
  prev,               \* history: per id, "ok", "failed" or "none" in the previous run
  everTransient,      \* history: some existence lookup failed transiently
  fpc,                \* position of a lone function call: "off", "call", "done"
  tsIn,               \* to_srt_timestamp: the offset asked for, in milliseconds
  tsArg,              \* to_srt_timestamp: the argument, the float nearest to
                      \* tsIn / 1000 seconds
  tsOut,              \* to_srt_timestamp: the string returned
  segments,           \* transcribe_to_vtt: the segments the transcriber yields,
                      \* each [start, end, text], offsets in milliseconds
  segIdx,             \* transcribe_to_vtt: segments written so far
  srtDoc              \* transcribe_to_vtt: the characters written to the .srt file

cfgVars == <<apiKey, apiSecret, argv1, catalog, pageCap>>
listVars == <<videos, nextCursor, fetches, listFailed>>
loopVars == <<idx, processed, failed>>
itemVars == <<vpc, cur, ret, lookup, ws, steplog, storeAtCall>>
fsVars == <<dirs, files>>
histVars == <<invoked, results, prev, everTransient>>
fnVars == <<fpc, tsIn, tsArg, tsOut, segments, segIdx, srtDoc>>
vars == <<cfgVars, store, run, pc, listVars, loopVars, itemVars, fsVars, histVars, fnVars>>

NoArg == 0
NoCursor == 0
NoDir == <<>>
NoId == 0
Ids == 1 .. MaxVideos

Min(a, b) == IF a <= b THEN a ELSE b

(* ---------------- names and paths ---------------- *)
\* f"subtitles/{public_id}_{LANG}" as looked up by subtitle_exists
ExistsName(public_id) == <<"subtitles", public_id, LANG>>

\* a plausible slip: the upload leaves the language out of the name
UploadNameNoLang(public_id) == <<"subtitles", public_id, "">>

\* f"subtitles/{public_id}_{LANG}" as written by upload_subtitle
UploadName(public_id) == <<"subtitles", public_id, LANG>>

\* os.path.join(temp_dir, "<stem>.<ext>")
PathJoin(dir, stem, ext) == <<dir, stem, ext>>
\* a plausible slip: the video is written beside the script, not in temp_dir
Mp4PathNotJoined(dir) == PathJoin(NoDir, "video", "mp4")

Mp4Path(dir) == PathJoin(dir, "video", "mp4")
WavPath(dir) == PathJoin(dir, "audio", "wav")
VttPath(dir) == PathJoin(dir, "subtitles", "vtt")
\* vtt_path.replace(".vtt", ".srt")
SrtPath(vtt_path) == IF vtt_path[3] = "vtt" THEN <<vtt_path[1], vtt_path[2], "srt">> ELSE vtt_path

(* ---------------- the store's paginated listing ---------------- *)
\* api.resources(max_results, next_cursor) on a stable catalog: the cursor is
\* the number of items already served; NoCursor asks for the first page.
PageLen(cursor, max_results) == Min(Min(max_results, pageCap), Len(catalog) - cursor)
PageItems(cursor, max_results) == SubSeq(catalog, cursor + 1, cursor + PageLen(cursor, max_results))
PageNext(cursor, max_results) ==
  IF cursor + PageLen(cursor, max_results) < Len(catalog)
  THEN cursor + PageLen(cursor, max_results) ELSE NoCursor

(* ---------------- initial states ---------------- *)
InitCommon ==
  /\ run = 1
  /\ pc = "start"
  /\ videos = <<>> /\ nextCursor = NoCursor /\ fetches = 0 /\ listFailed = FALSE
  /\ idx = 0 /\ processed = 0 /\ failed = 0
  /\ vpc = "idle" /\ cur = NoId /\ ret = FALSE /\ lookup = "none"
  /\ ws = NoDir /\ steplog = <<>> /\ storeAtCall = << >>
  /\ dirs = {} /\ files = {}
  /\ invoked = <<>> /\ results = <<>>
  /\ prev = [i \in Ids |-> "none"]
  /\ everTransient = FALSE
  /\ fpc = "off" /\ tsIn = 0 /\ tsArg = [int |-> 0, frac |-> <<>>] /\ tsOut = <<>>
  /\ segments = <<>> /\ segIdx = 0 /\ srtDoc = <<>>

\* a process start with a catalog of at most maxn videos, some of which
\* already have a subtitle artifact
InitWith(maxn) ==
  /\ apiKey \in BOOLEAN /\ apiSecret \in BOOLEAN
  /\ argv1 \in {NoArg} \cup Ids
  /\ \E n \in 0 .. maxn : catalog = [i \in 1 .. n |-> i]
  /\ pageCap \in {1, 2, MaxResults}
  /\ \E have \in SUBSET Ids : store = [nm \in {ExistsName(i) : i \in have} |-> "old"]
  /\ InitCommon

Init == InitWith(MaxVideos)

(* ---------------- module level: lines 22-38 ---------------- *)
ConfigMissing ==
  /\ pc = "start"
  /\ ~apiKey \/ ~apiSecret
  /\ pc' = "exit1"
  /\ UNCHANGED <<fnVars, cfgVars, store, run, listVars, loopVars, itemVars, fsVars, histVars>>

ConfigOk ==
  /\ pc = "start"
  /\ apiKey /\ apiSecret
  /\ pc' = "main"
  /\ UNCHANGED <<fnVars, cfgVars, store, run, listVars, loopVars, itemVars, fsVars, histVars>>

\* the status the operating system sees once the process has ended:
\* sys.exit(1) at line 30, a traceback of an uncaught exception, or the
\* normal end of main
ExitStatus ==
  CASE pc = "exit1" -> 1
    [] pc = "crashed" -> 1
    [] pc = "exit0" -> 0
    [] OTHER -> -1

Ended == pc \in {"exit0", "exit1", "crashed"}

\* a plausible slip: the argument is ignored
DispatchAlwaysAll(arg) == "all"

\* if len(sys.argv) > 1: ... else: ... (186-192)
Dispatch(arg) == IF arg # NoArg THEN "single" ELSE "all"

(* ---------------- get_all_videos: lines 145-170 ---------------- *)
\* main with no argument calls process_all_videos, which calls get_all_videos
MainAll ==
  /\ pc = "main"
  /\ Dispatch(argv1) = "all"
  /\ pc' = "listing"
  /\ videos' = <<>> /\ nextCursor' = NoCursor
  /\ UNCHANGED <<fetches, listFailed>>
  /\ UNCHANGED <<fnVars, cfgVars, store, run, loopVars, itemVars, fsVars, histVars>>

\* a plausible slip: each page replaces the list instead of extending it
AppendPageReplace(vids, items) == items

\* for item in res.get("resources", []): videos.append(item["public_id"])
AppendPage(vids, items) == vids \o items

\* a plausible slip: the loop ends after the first page whatever the cursor
StopListingAlways(cursor) == TRUE

\* if not next_cursor: break (164-165)
StopListing(cursor) == cursor = NoCursor

\* one iteration of the while loop whose api.resources call returns
FetchPage ==
  /\ pc = "listing"
  /\ LET c == nextCursor
         cnew == PageNext(c, MaxResults)
     IN /\ videos' = AppendPage(videos, PageItems(c, MaxResults))
        /\ nextCursor' = cnew
        /\ pc' = IF StopListing(cnew) THEN "listed" ELSE "listing"
  /\ fetches' = fetches + 1
  /\ UNCHANGED listFailed
  /\ UNCHANGED <<fnVars, cfgVars, store, run, loopVars, itemVars, fsVars, histVars>>

\* a plausible slip: a failed listing returns nothing
OnFetchRaiseDrop(vids) == <<>>

\* except Exception: break (167-168), then return videos (170): what was
\* collected so far stays
OnFetchRaise(vids) == vids

\* one iteration whose api.resources call raises: except ... break
FetchPageFail ==
  /\ pc = "listing"
  /\ pc' = "listed"
  /\ fetches' = fetches + 1
  /\ listFailed' = TRUE
  /\ videos' = OnFetchRaise(videos)
  /\ UNCHANGED nextCursor
  /\ UNCHANGED <<fnVars, cfgVars, store, run, loopVars, itemVars, fsVars, histVars>>

(* ---------------- process_all_videos: lines 172-182 ---------------- *)
\* get_all_videos returns (line 170); processed = 0, failed = 0 (175-176)
ListReturn ==
  /\ pc = "listed"
  /\ pc' = "loop"
  /\ idx' = 1 /\ processed' = 0 /\ failed' = 0
  /\ UNCHANGED <<fnVars, cfgVars, store, run, listVars, itemVars, fsVars, histVars>>

\* what a call of process_video starts from
CallProcessVideo(public_id) ==
  /\ vpc' = "check"
  /\ cur' = public_id
  /\ ret' = FALSE /\ lookup' = "none" /\ ws' = NoDir /\ steplog' = <<>>
  /\ storeAtCall' = store
  /\ invoked' = Append(invoked, public_id)

\* a plausible slip: the list is walked from its end
LoopItemReversed(vids, i) == vids[Len(vids) + 1 - i]

\* enumerate(videos, 1): the i-th iteration takes the i-th element
LoopItem(vids, i) == vids[i]

\* for i, public_id in enumerate(videos, 1): process_video(public_id)
LoopCall ==
  /\ pc = "loop" /\ vpc = "idle"
  /\ idx <= Len(videos)
  /\ CallProcessVideo(LoopItem(videos, idx))
  /\ UNCHANGED <<results, prev, everTransient>>
  /\ UNCHANGED <<fnVars, cfgVars, store, run, pc, listVars, loopVars, fsVars>>

\* how the result of one call is named: Skipped, Succeeded or Failed
Outcome(r, lk) == IF ~r THEN "failed" ELSE IF lk = "found" THEN "skipped" ELSE "succeeded"

\* a plausible slip: a failed item ends the loop
LoopAdvanceBreak(i, r) == IF r THEN i + 1 ELSE Len(videos) + 1

\* a plausible slip: a failed item is tried again
LoopAdvanceRetry(i, r) == IF r THEN i + 1 ELSE i

\* the for loop moves on after a call that returned True or False (178-182)
LoopAdvance(i, r) == i + 1

\* if process_video(public_id): processed += 1 else: failed += 1
LoopCount ==
  /\ pc = "loop" /\ vpc = "returned"
  /\ processed' = IF ret THEN processed + 1 ELSE processed
  /\ failed' = IF ret THEN failed ELSE failed + 1
  /\ idx' = LoopAdvance(idx, ret)
  /\ results' = Append(results, Outcome(ret, lookup))
  /\ vpc' = "idle" /\ cur' = NoId /\ ret' = FALSE /\ lookup' = "none"
  /\ steplog' = <<>> /\ storeAtCall' = << >>
  /\ UNCHANGED <<ws, invoked, prev, everTransient>>
  /\ UNCHANGED <<fnVars, cfgVars, store, run, pc, listVars, fsVars>>

\* the for loop is exhausted: process_all_videos and main return
LoopEnd ==
  /\ pc = "loop" /\ vpc = "idle"
  /\ idx > Len(videos)
  /\ pc' = "exit0"
  /\ UNCHANGED <<fnVars, cfgVars, store, run, listVars, loopVars, itemVars, fsVars, histVars>>

(* ---------------- main: lines 184-195 ---------------- *)
\* len(sys.argv) > 1: process_video(sys.argv[1])
MainSingle ==
  /\ pc = "main"
  /\ Dispatch(argv1) = "single"
  /\ pc' = "single"
  /\ CallProcessVideo(argv1)
  /\ UNCHANGED <<results, prev, everTransient>>
  /\ UNCHANGED <<fnVars, cfgVars, store, run, listVars, loopVars, fsVars>>

\* the single call returned; its value is dropped and main returns
SingleEnd ==
  /\ pc = "single" /\ vpc = "returned"
  /\ pc' = "exit0"
  /\ results' = Append(results, Outcome(ret, lookup))
  /\ vpc' = "idle" /\ cur' = NoId /\ ret' = FALSE /\ lookup' = "none"
  /\ steplog' = <<>> /\ storeAtCall' = << >>
  /\ UNCHANGED <<ws, invoked, prev, everTransient>>
  /\ UNCHANGED <<fnVars, cfgVars, store, run, listVars, loopVars, fsVars>>

\* an exception left process_video: neither process_all_videos nor main
\* catches it, the process ends with a traceback
Uncaught ==
  /\ pc \in {"loop", "single"} /\ vpc = "raised"
  /\ pc' = "crashed"
  /\ UNCHANGED <<fnVars, cfgVars, store, run, listVars, loopVars, itemVars, fsVars, histVars>>

(* ---------------- process_video: lines 113-143 ---------------- *)
Range(f) == {f[k] : k \in DOMAIN f}

\* a plausible slip: only NotFound counts as absent
SubtitleExistsUnlessNotFound(outcome) == outcome # "notfound"

\* subtitle_exists (86-92): True when api.resource returns, False on any raise
SubtitleExists(outcome) == outcome = "found"

\* outcomes api.resource can have for a name: it returns when the artifact is
\* there, raises NotFound when it is not, and may fail transiently either way
LookupOutcomes(name) == IF name \in DOMAIN store THEN {"found", "error"} ELSE {"notfound", "error"}

\* a plausible slip: the early return is missing
AfterExistsNoSkip(exists) == "acquire"

\* if subtitle_exists(public_id): return True (116-117)
AfterExists(exists) == IF exists THEN "returned" ELSE "acquire"

CheckExists ==
  /\ vpc = "check"
  /\ \E o \in LookupOutcomes(ExistsName(cur)) :
       /\ lookup' = o
       /\ everTransient' = (everTransient \/ o = "error")
       /\ vpc' = AfterExists(SubtitleExists(o))
       /\ ret' = SubtitleExists(o)
  /\ UNCHANGED <<cur, ws, steplog, storeAtCall, invoked, results, prev>>
  /\ UNCHANGED <<fnVars, cfgVars, store, run, pc, listVars, loopVars, fsVars>>

\* tempfile.TemporaryDirectory() (122): a fresh directory
NewDir == <<"tmp", Len(invoked)>>

Acquire ==
  /\ vpc = "acquire"
  /\ ws' = NewDir
  /\ dirs' = dirs \cup {NewDir}
  /\ vpc' = "download"
  /\ UNCHANGED <<cur, ret, lookup, steplog, storeAtCall, files>>
  /\ UNCHANGED <<fnVars, cfgVars, store, run, pc, listVars, loopVars, histVars>>

\* mkdtemp raises: line 122 is outside the try, the exception leaves the call
AcquireRaise ==
  /\ vpc = "acquire"
  /\ vpc' = "raised"
  /\ UNCHANGED <<cur, ret, lookup, ws, steplog, storeAtCall>>
  /\ UNCHANGED <<fnVars, cfgVars, store, run, pc, listVars, loopVars, fsVars, histVars>>

\* the statements of the try block, in program order (129-140)
AfterStep(step) ==
  CASE step = "download" -> "extract"
    [] step = "extract" -> "transcribe"
    [] step = "transcribe" -> "serialize"
    [] step = "serialize" -> "convert"
    [] step = "convert" -> "upload"
    [] step = "upload" -> "release"

\* a plausible slip: the exception is swallowed per statement
AfterRaiseContinue(step) == AfterStep(step)

\* except Exception: return False (142-143), which leaves the with block
AfterRaise(step) == "release"

StepOk(step, wrote) ==
  /\ vpc = step
  /\ steplog' = Append(steplog, <<step, "ok">>)
  /\ files' = files \cup wrote
  /\ vpc' = AfterStep(step)
  /\ ret' = (AfterStep(step) = "release")
  /\ UNCHANGED <<cur, lookup, ws, storeAtCall, dirs>>
  /\ UNCHANGED <<fnVars, cfgVars, run, pc, listVars, loopVars, histVars>>

StepRaise(step, wrote) ==
  /\ vpc = step
  /\ steplog' = Append(steplog, <<step, "raise">>)
  /\ files' = files \cup wrote
  /\ vpc' = AfterRaise(step)
  /\ ret' = FALSE
  /\ UNCHANGED <<cur, lookup, ws, storeAtCall, dirs>>
  /\ UNCHANGED <<fnVars, cfgVars, run, pc, listVars, loopVars, histVars>>

\* download_video (94-100): the video is fetched when the store has it
Download ==
  /\ cur \in Range(catalog)
  /\ StepOk("download", {Mp4Path(ws)})
  /\ UNCHANGED store

\* raise_for_status raises before the file is opened, a broken stream after
DownloadRaise ==
  /\ \E partial \in BOOLEAN :
       StepRaise("download", IF partial THEN {Mp4Path(ws)} ELSE {})
  /\ UNCHANGED store

\* extract_audio (48-60)
Extract ==
  /\ StepOk("extract", {WavPath(ws)})
  /\ UNCHANGED store

ExtractRaise ==
  /\ \E partial \in BOOLEAN :
       StepRaise("extract", IF partial THEN {WavPath(ws)} ELSE {})
  /\ UNCHANGED store

\* transcribe_to_vtt, the engine (65-71)
Transcribe ==
  /\ StepOk("transcribe", {})
  /\ UNCHANGED store

TranscribeRaise ==
  /\ StepRaise("transcribe", {})
  /\ UNCHANGED store

\* transcribe_to_vtt, writing the SRT file (74-81)
Serialize ==
  /\ StepOk("serialize", {SrtPath(VttPath(ws))})
  /\ UNCHANGED store

SerializeRaise ==
  /\ \E partial \in BOOLEAN :
       StepRaise("serialize", IF partial THEN {SrtPath(VttPath(ws))} ELSE {})
  /\ UNCHANGED store

\* transcribe_to_vtt, webvtt.from_srt(srt_path).save(vtt_path) (84)
Convert ==
  /\ StepOk("convert", {VttPath(ws)})
  /\ UNCHANGED store

ConvertRaise ==
  /\ \E partial \in BOOLEAN :
       StepRaise("convert", IF partial THEN {VttPath(ws)} ELSE {})
  /\ UNCHANGED store

\* uploader.upload(..., public_id=name, overwrite=True) (105-111)
UploadStore(st, name, content) ==
  [nm \in DOMAIN st \cup {name} |-> IF nm = name THEN content ELSE st[nm]]

\* upload_subtitle (102-111), then return True (140)
Upload ==
  /\ StepOk("upload", {})
  /\ store' = UploadStore(store, UploadName(cur), "new")

UploadRaise ==
  /\ StepRaise("upload", {})
  /\ UNCHANGED store

\* TemporaryDirectory.__exit__: the directory and all it holds are removed
CleanupDirs(ds, dir) == ds \ {dir}
\* a plausible slip: only the three named paths are deleted
CleanupFilesNamed(fs, dir) == fs \ {Mp4Path(dir), WavPath(dir), VttPath(dir)}

CleanupFiles(fs, dir) == {f \in fs : f[1] # dir}

\* the with block is left (122): cleanup, then the return takes effect
Release ==
  /\ vpc = "release"
  /\ dirs' = CleanupDirs(dirs, ws)
  /\ files' = CleanupFiles(files, ws)
  /\ vpc' = "returned"
  /\ UNCHANGED <<cur, ret, lookup, ws, steplog, storeAtCall>>
  /\ UNCHANGED <<fnVars, cfgVars, store, run, pc, listVars, loopVars, histVars>>

\* the cleanup raises: the exception replaces the return value
ReleaseRaise ==
  /\ vpc = "release"
  /\ vpc' = "raised"
  /\ UNCHANGED <<cur, ret, lookup, ws, steplog, storeAtCall>>
  /\ UNCHANGED <<fnVars, cfgVars, store, run, pc, listVars, loopVars, fsVars, histVars>>

ProcessVideo ==
  \/ CheckExists \/ Acquire \/ AcquireRaise
  \/ Download \/ DownloadRaise \/ Extract \/ ExtractRaise
  \/ Transcribe \/ TranscribeRaise \/ Serialize \/ SerializeRaise
  \/ Convert \/ ConvertRaise \/ Upload \/ UploadRaise
  \/ Release \/ ReleaseRaise

(* ---------------- the next run of the script ---------------- *)
\* A new process starts from the module level again. It keeps nothing of
\* the old one but the store; whatever an earlier process left in the
\* temporary area is out of its reach.
\* what the finished run recorded for an id: a call that returned True
\* (skipped or processed), one that returned False, or no finished call
PrevOf(id) ==
  IF \E k \in 1 .. Len(results) : invoked[k] = id
  THEN IF results[CHOOSE k \in 1 .. Len(results) : invoked[k] = id] = "failed"
       THEN "failed" ELSE "ok"
  ELSE "none"

NewRun ==
  /\ pc \in {"exit0", "crashed"}
  /\ run < MaxRuns
  /\ run' = run + 1
  /\ pc' = "start"
  /\ prev' = [i \in Ids |-> PrevOf(i)]
  /\ videos' = <<>> /\ nextCursor' = NoCursor /\ fetches' = 0 /\ listFailed' = FALSE
  /\ idx' = 0 /\ processed' = 0 /\ failed' = 0
  /\ vpc' = "idle" /\ cur' = NoId /\ ret' = FALSE /\ lookup' = "none"
  /\ ws' = NoDir /\ steplog' = <<>> /\ storeAtCall' = << >>
  /\ invoked' = <<>> /\ results' = <<>>
  /\ store' = [nm \in DOMAIN store |-> "old"]
  /\ dirs' = {} /\ files' = {}
  /\ UNCHANGED <<fnVars, cfgVars, everTransient>>

Next ==
  \/ ConfigMissing \/ ConfigOk
  \/ MainAll \/ MainSingle \/ SingleEnd
  \/ FetchPage \/ FetchPageFail \/ ListReturn
  \/ LoopCall \/ LoopCount \/ LoopEnd \/ Uncaught
  \/ CheckExists \/ Acquire \/ AcquireRaise
  \/ Download \/ DownloadRaise \/ Extract \/ ExtractRaise
  \/ Transcribe \/ TranscribeRaise \/ Serialize \/ SerializeRaise
  \/ Convert \/ ConvertRaise \/ Upload \/ UploadRaise
  \/ Release \/ ReleaseRaise

\* one run of the script
Spec == Init /\ [][Next]_vars

\* one run of the script in which every call returns or raises and the
\* single thread of control always takes its next step
SpecFair == Init /\ [][Next]_vars /\ WF_vars(Next)

\* consecutive whole-catalog runs of the script against the same store
InitRuns ==
  /\ apiKey \in BOOLEAN /\ apiSecret \in BOOLEAN
  /\ argv1 = NoArg
  /\ \E n \in 0 .. MaxVideos : catalog = [i \in 1 .. n |-> i]
  /\ pageCap \in {1, MaxResults}
  /\ \E have \in SUBSET Range(catalog) : store = [nm \in {ExistsName(i) : i \in have} |-> "old"]
  /\ InitCommon

NextRuns ==
  \/ ConfigMissing \/ ConfigOk \/ MainAll
  \/ FetchPage \/ FetchPageFail \/ ListReturn
  \/ LoopCall \/ LoopCount \/ LoopEnd \/ Uncaught
  \/ ProcessVideo
  \/ NewRun

SpecRuns == InitRuns /\ [][NextRuns]_vars

ListNext == ConfigMissing \/ ConfigOk \/ MainAll \/ FetchPage \/ FetchPageFail

InitList ==
  /\ apiKey \in BOOLEAN /\ apiSecret \in BOOLEAN
  /\ argv1 = NoArg
  /\ \E n \in 0 .. MaxCatalog : catalog = [i \in 1 .. n |-> i]
  /\ pageCap \in {1, 2, MaxResults}
  /\ store = << >>
  /\ InitCommon

SpecList == InitList /\ [][ListNext]_vars

(* ---------------- to_srt_timestamp: lines 40-46 ---------------- *)
(* A Python float is an IEEE-754 double: 53 significant bits, results of    *)
(* division and multiplication rounded to nearest, ties to even. A float    *)
(* here is [int |-> its integer part, frac |-> the bits of its fractional   *)
(* part, most significant first]; all floats are non-negative.              *)
Precision == 53

RECURSIVE BitLen(_)
BitLen(n) == IF n = 0 THEN 0 ELSE 1 + BitLen(n \div 2)

\* the bits of a quotient or a product are worked out Limb bits at a time
Limb == 15

\* the number a bit sequence writes, and the n bits that write v
RECURSIVE BitsValue(_)
BitsValue(bits) ==
  IF bits = <<>> THEN 0
  ELSE 2 * BitsValue(SubSeq(bits, 1, Len(bits) - 1)) + bits[Len(bits)]

ValueBits(v, n) == [j \in 1 .. n |-> (v \div (2 ^ (n - j))) % 2]

\* the first n bits of the binary expansion of r / d, for 0 <= r < d
RECURSIVE QuotBits(_, _, _)
QuotBits(r, d, n) ==
  IF n = 0 THEN <<>>
  ELSE LET m == Min(Limb, n)
       IN ValueBits((r * (2 ^ m)) \div d, m) \o QuotBits((r * (2 ^ m)) % d, d, n - m)

\* what is left of r after n bits of r / d have been produced
RECURSIVE QuotRem(_, _, _)
QuotRem(r, d, n) ==
  IF n = 0 THEN r ELSE QuotRem((r * (2 ^ Min(Limb, n))) % d, d, n - Min(Limb, n))

\* the zeros a bit sequence starts with
RECURSIVE LeadingZeros(_)
LeadingZeros(bits) ==
  IF bits = <<>> \/ bits[1] = 1 THEN 0 ELSE 1 + LeadingZeros(Tail(bits))

AllOnes(bits) == \A k \in 1 .. Len(bits) : bits[k] = 1
AnyOne(bits) == \E k \in 1 .. Len(bits) : bits[k] = 1

\* bits + 1 in the last place, for bits that are not all ones: the last zero
\* becomes a one and the ones after it become zeros
Incr(bits) ==
  LET z == CHOOSE k \in 1 .. Len(bits) :
             bits[k] = 0 /\ \A j \in (k + 1) .. Len(bits) : bits[j] = 1
  IN [k \in 1 .. Len(bits) |-> IF k < z THEN bits[k] ELSE IF k = z THEN 1 ELSE 0]

\* the fraction bits a double keeps for a value with integer part i whose
\* fraction starts with bits
KeptBits(i, bits) ==
  IF i > 0 THEN Precision - BitLen(i) ELSE LeadingZeros(bits) + Precision

\* round to nearest, ties to even: i + 0.bits, of which keep fraction bits
\* stay; sticky tells that something non-zero follows bits
RoundFloat(i, bits, keep, sticky) ==
  IF Len(bits) <= keep /\ ~sticky THEN [int |-> i, frac |-> bits]
  ELSE LET kept == SubSeq(bits, 1, keep)
           guard == bits[keep + 1]
           rest == sticky \/ AnyOne(SubSeq(bits, keep + 2, Len(bits)))
           odd == IF keep > 0 THEN kept[keep] = 1 ELSE i % 2 = 1
           up == guard = 1 /\ (rest \/ odd)
       IN IF ~up THEN [int |-> i, frac |-> kept]
          ELSE IF AllOnes(kept) THEN [int |-> i + 1, frac |-> <<>>]
          ELSE [int |-> i, frac |-> Incr(kept)]

\* the float nearest to n / d seconds
FloatOfRatio(n, d) ==
  LET i == n \div d
      r == n % d
      lead == IF i > 0 THEN 0 ELSE LeadingZeros(QuotBits(r, d, BitLen(d)))
      keep == IF i > 0 THEN Precision - BitLen(i) ELSE lead + Precision
  IN IF r = 0 THEN [int |-> i, frac |-> <<>>]
     ELSE RoundFloat(i, QuotBits(r, d, keep + 1), keep, QuotRem(r, d, keep + 1) # 0)

\* ts // k as an integer and ts % k, both exact for these magnitudes
FloatFloorDiv(x, k) == x.int \div k
FloatMod(x, k) == [int |-> x.int % k, frac |-> x.frac]

\* the exact product 0.bits * k + carry units in the last place: its integer
\* part, then its fraction bits
RECURSIVE MulBits(_, _, _)
MulBits(bits, k, carry) ==
  IF bits = <<>> THEN <<carry>>
  ELSE LET n == Min(Limb, Len(bits))
           low == SubSeq(bits, Len(bits) - n + 1, Len(bits))
           v == k * BitsValue(low) + carry
       IN MulBits(SubSeq(bits, 1, Len(bits) - n), k, v \div (2 ^ n)) \o ValueBits(v % (2 ^ n), n)

\* x * k for a float x below 1, rounded as the hardware rounds it
FloatMulFrac(x, k) ==
  LET p == MulBits(x.frac, k, 0)
  IN RoundFloat(Head(p), Tail(p), KeptBits(Head(p), Tail(p)), FALSE)

\* int(x): truncation
FloatInt(x) == x.int

\* ms = int((ts % 1) * 1000)
MillisOf(ts) == FloatInt(FloatMulFrac(FloatMod(ts, 1), 1000))

\* h, m, s, ms as lines 42-45 compute them
TimestampFields(ts) ==
  [h |-> FloatFloorDiv(ts, 3600),
   m |-> FloatFloorDiv(FloatMod(ts, 3600), 60),
   s |-> FloatInt(FloatMod(ts, 60)),
   ms |-> MillisOf(ts)]

DigitChars == <<"0", "1", "2", "3", "4", "5", "6", "7", "8", "9">>

\* str(n) for n >= 0, one character per element
RECURSIVE Decimal(_)
Decimal(n) ==
  IF n < 10 THEN <<DigitChars[n + 1]>> ELSE Decimal(n \div 10) \o <<DigitChars[(n % 10) + 1]>>

\* f"{n:0w}": zero-padded to at least w characters
RECURSIVE ZeroPad(_, _)
ZeroPad(chars, w) == IF Len(chars) >= w THEN chars ELSE ZeroPad(<<"0">> \o chars, w)

\* f"{h:02}:{m:02}:{s:02},{ms:03}"
to_srt_timestamp(ts) ==
  LET f == TimestampFields(ts)
  IN ZeroPad(Decimal(f.h), 2) \o <<":">> \o ZeroPad(Decimal(f.m), 2) \o <<":">>
       \o ZeroPad(Decimal(f.s), 2) \o <<",">> \o ZeroPad(Decimal(f.ms), 3)

\* offsets in whole milliseconds handed to the formatter: every one up to
\* MaxMillis, and 1 h 1 min 1.5 s, 1 h and 1 ms, 100 h
TsInputs == (0 .. MaxMillis) \cup {3661500, 3600001, 360000000}

InitTs ==
  /\ apiKey = TRUE /\ apiSecret = TRUE /\ argv1 = NoArg
  /\ catalog = <<>> /\ pageCap = MaxResults /\ store = << >>
  /\ run = 1 /\ pc = "main"
  /\ videos = <<>> /\ nextCursor = NoCursor /\ fetches = 0 /\ listFailed = FALSE
  /\ idx = 0 /\ processed = 0 /\ failed = 0
  /\ vpc = "idle" /\ cur = NoId /\ ret = FALSE /\ lookup = "none"
  /\ ws = NoDir /\ steplog = <<>> /\ storeAtCall = << >>
  /\ dirs = {} /\ files = {}
  /\ invoked = <<>> /\ results = <<>>
  /\ prev = [i \in Ids |-> "none"]
  /\ everTransient = FALSE
  /\ fpc = "call" /\ tsIn \in TsInputs /\ tsArg = FloatOfRatio(tsIn, 1000) /\ tsOut = <<>>
  /\ segments = <<>> /\ segIdx = 0 /\ srtDoc = <<>>

\* start_time = to_srt_timestamp(segment.start)
FormatTimestamp ==
  /\ fpc = "call"
  /\ tsOut' = to_srt_timestamp(tsArg)
  /\ fpc' = "done"
  /\ UNCHANGED <<tsIn, tsArg, segments, segIdx, srtDoc, cfgVars, store, run, pc, listVars, loopVars, itemVars, fsVars, histVars>>

SpecTs == InitTs /\ [][FormatTimestamp]_vars

(* ---------------- the SRT document: lines 73-81 ---------------- *)
\* what str.strip() removes at both ends
Whitespace == {" ", "\n", "\t"}

\* segment.text.strip()
Strip(text) ==
  LET keep == {k \in 1 .. Len(text) : text[k] \notin Whitespace}
  IN IF keep = {} THEN <<>>
     ELSE SubSeq(text, CHOOSE k \in keep : \A j \in keep : k <= j,
                       CHOOSE k \in keep : \A j \in keep : j <= k)

\* f"{i}\n{start_time} --> {end_time}\n{text}\n\n"
Cue(i, segment) ==
  Decimal(i) \o <<"\n">>
    \o to_srt_timestamp(FloatOfRatio(segment.start, 1000))
    \o <<" ", "-", "-", ">", " ">>
    \o to_srt_timestamp(FloatOfRatio(segment.end, 1000))
    \o <<"\n">> \o Strip(segment.text) \o <<"\n", "\n">>

\* the segments a transcription may yield: offsets in whole milliseconds,
\* texts with blanks around them, of two lines, with an empty line inside,
\* and of blanks only
SegSpans == {<<0, 1001>>, <<1001, 2500>>, <<2500, 3661500>>}
SegTexts == {<<"a">>, <<" ", "a", " ">>, <<"a", "\n", "b">>,
             <<"a", "\n", "\n", "b">>, <<" ">>}
Segments == {[start |-> sp[1], end |-> sp[2], text |-> t] : sp \in SegSpans, t \in SegTexts}
SegmentSeqs == UNION {[1 .. n -> Segments] : n \in 0 .. MaxSegs}

InitSrt ==
  /\ apiKey = TRUE /\ apiSecret = TRUE /\ argv1 = NoArg
  /\ catalog = <<>> /\ pageCap = MaxResults /\ store = << >>
  /\ run = 1 /\ pc = "main"
  /\ videos = <<>> /\ nextCursor = NoCursor /\ fetches = 0 /\ listFailed = FALSE
  /\ idx = 0 /\ processed = 0 /\ failed = 0
  /\ vpc = "idle" /\ cur = NoId /\ ret = FALSE /\ lookup = "none"
  /\ ws = NoDir /\ steplog = <<>> /\ storeAtCall = << >>
  /\ dirs = {} /\ files = {}
  /\ invoked = <<>> /\ results = <<>>
  /\ prev = [i \in Ids |-> "none"]
  /\ everTransient = FALSE
  /\ tsIn = 0 /\ tsArg = [int |-> 0, frac |-> <<>>] /\ tsOut = <<>>
  /\ fpc = "srt" /\ segments \in SegmentSeqs /\ segIdx = 0 /\ srtDoc = <<>>

\* one turn of the loop of lines 76-81
WriteCue ==
  /\ fpc = "srt" /\ segIdx < Len(segments)
  /\ srtDoc' = srtDoc \o Cue(segIdx + 1, segments[segIdx + 1])
  /\ segIdx' = segIdx + 1
  /\ UNCHANGED <<fpc, tsIn, tsArg, tsOut, segments, cfgVars, store, run, pc,
                 listVars, loopVars, itemVars, fsVars, histVars>>

\* the segments are exhausted and the with block of line 75 closes the file
CloseSrt ==
  /\ fpc = "srt" /\ segIdx = Len(segments)
  /\ fpc' = "written"
  /\ UNCHANGED <<tsIn, tsArg, tsOut, segments, segIdx, srtDoc, cfgVars, store, run, pc,
                 listVars, loopVars, itemVars, fsVars, histVars>>

SpecSrt == InitSrt /\ [][WriteCue \/ CloseSrt]_vars

(* ======================= properties ======================= *)
Batch == argv1 = NoArg
InCall == vpc \notin {"idle"}
Steps == <<"download", "extract", "transcribe", "serialize", "convert", "upload">>
CountOf(seq, x) == Cardinality({k \in 1 .. Len(seq) : seq[k] = x})
IsPrefix(a, b) == Len(a) <= Len(b) /\ a = SubSeq(b, 1, Len(a))
NoFilesIn(dir) == \A f \in files : f[1] # dir

\* C1 -- Idempotency: once subtitle_exists has answered True for the running
\* call, process_video is at its return with True, no pipeline step was
\* attempted, no workspace was created, and nothing was written to the store
\* or to the file system.
C1_Idempotency ==
  lookup = "found" =>
    /\ vpc = "returned" /\ ret
    /\ steplog = <<>>
    /\ ws = NoDir /\ dirs = {} /\ files = {}
    /\ store = storeAtCall
    /\ Outcome(ret, lookup) = "skipped"

C1_Witness ==
  /\ vpc = "returned" /\ lookup = "found" /\ pc = "loop"
  /\ ExistsName(cur) \in DOMAIN store

\* C2 -- Failure containment: between two calls of the batch loop the
\* counters agree with the outcomes so far (failed = number of calls that
\* returned False, processed = all the others, skipped included), the loop
\* position follows the number of finished calls, and a batch run that
\* completes has called process_video for every enumerated identifier; only
\* an exception leaving process_video ends a run early.
C2_FailureContainment ==
  /\ (Batch /\ pc \in {"loop", "exit0"} /\ vpc = "idle") =>
       /\ failed = CountOf(results, "failed")
       /\ processed = Len(results) - CountOf(results, "failed")
       /\ processed = CountOf(results, "skipped") + CountOf(results, "succeeded")
       /\ idx = Len(results) + 1
       /\ Len(invoked) = Len(results)
  /\ (Batch /\ pc = "exit0") =>
       /\ invoked = videos
       /\ Len(results) = Len(videos)
       /\ processed + failed = Len(videos)
  /\ pc = "crashed" => vpc = "raised"

C2_Witness ==
  /\ Batch /\ pc = "exit0"
  /\ videos = <<1, 2, 3>>
  /\ results = <<"succeeded", "failed", "succeeded">>
  /\ failed = 1 /\ processed = 2

\* C3 -- Workspace cleanup: whenever process_video returns, True or False,
\* the temporary directory of that call and every file in it are gone.
C3_WorkspaceCleanup ==
  vpc = "returned" =>
    /\ ws \notin dirs
    /\ NoFilesIn(ws)
    /\ dirs = {} /\ files = {}

C3_Witness ==
  /\ vpc = "returned" /\ ~ret /\ ws # NoDir
  /\ Len(steplog) = 6 /\ steplog[6] = <<"upload", "raise">>

\* C4 -- Step order: the steps attempted by one call are an initial part of
\* download, extract, transcribe, serialize (SRT, then VTT), upload; every
\* step but the last attempted one has succeeded, a step is running only
\* when all before it succeeded, and nothing runs after a failure.
C4_StepOrder ==
  /\ Len(steplog) <= Len(Steps)
  /\ \A k \in 1 .. Len(steplog) :
       /\ steplog[k][1] = Steps[k]
       /\ k < Len(steplog) => steplog[k][2] = "ok"
  /\ \A k \in 1 .. Len(Steps) :
       vpc = Steps[k] => steplog = [j \in 1 .. k - 1 |-> <<Steps[j], "ok">>]
  /\ (Len(steplog) > 0 /\ steplog[Len(steplog)][2] = "raise") =>
       vpc \in {"release", "returned", "raised"} /\ ~ret
  /\ (vpc \in {"release", "returned"} /\ ret /\ lookup # "found") =>
       steplog = [j \in 1 .. Len(Steps) |-> <<Steps[j], "ok">>]

C4_Witness ==
  /\ vpc = "returned" /\ ret
  /\ steplog = [j \in 1 .. Len(Steps) |-> <<Steps[j], "ok">>]

\* C5 -- Item-boundary containment, as claimed: no error raised while an
\* item is processed ever leaves process_video. The code keeps line 122 and
\* the exit of its with block outside the try, so this fails.
C5_NoErrorLeavesProcessVideo == vpc # "raised" /\ pc # "crashed"

\* C6 -- Pagination: when every page fetch succeeded, get_all_videos returns
\* the catalog itself: every identifier once, in page order and in-page
\* order; 250 items in pages of 100 take 3 fetches and give 250 distinct
\* identifiers.
C6_Pagination ==
  (pc = "listed" /\ ~listFailed) =>
    /\ videos = catalog
    /\ Cardinality(Range(videos)) = Len(catalog)
    /\ (Len(catalog) = 250 /\ pageCap = MaxResults) =>
         /\ fetches = 3
         /\ Len(videos) = 250
         /\ Cardinality(Range(videos)) = 250

C6_Witness ==
  /\ pc = "listed" /\ ~listFailed
  /\ Len(catalog) = 250 /\ pageCap = MaxResults
  /\ fetches = 3 /\ Len(videos) = 250

NoRepeat(seq) == \A j, k \in 1 .. Len(seq) : j # k => seq[j] # seq[k]

\* C7 -- No retry, store untouched: within one run process_video is called
\* at most once per enumerated identifier, one call attempts each pipeline
\* step at most once, and when a call returns False the store holds exactly
\* the artifacts it held when the call began.
C7_NoRetryStoreUntouched ==
  /\ NoRepeat(invoked)
  /\ Batch => IsPrefix(invoked, videos)
  /\ NoRepeat([k \in 1 .. Len(steplog) |-> steplog[k][1]])
  /\ (vpc = "returned" /\ ~ret) =>
       /\ store = storeAtCall
       /\ ExistsName(cur) \notin DOMAIN storeAtCall => ExistsName(cur) \notin DOMAIN store

C7_Witness ==
  /\ Batch /\ vpc = "returned" /\ ~ret
  /\ Len(steplog) = 6
  /\ ExistsName(cur) \notin DOMAIN store
  /\ Len(invoked) = 2

\* the pipeline of the running call was entered and its lookup said absent
Attempted == lookup = "notfound" /\ ~(vpc = "returned" /\ ws = NoDir)

\* C8 -- Resumability: upload and existence check use one name, and in a
\* batch run that follows another, with no lookup ever failing transiently,
\* an item that succeeded (or was skipped) in the previous run is skipped
\* with no step and no workspace, and an item that failed in the previous
\* run enters the pipeline again (a returning call has attempted the
\* download, a call returning True has run every step).
C8_Resumability ==
  /\ (Batch /\ run > 1 /\ ~everTransient /\ vpc \notin {"idle", "check"}) =>
       /\ prev[cur] = "ok" =>
            /\ lookup = "found" /\ vpc = "returned" /\ ret
            /\ steplog = <<>> /\ ws = NoDir
       /\ prev[cur] = "failed" =>
            /\ Attempted
            /\ vpc = "returned" => Len(steplog) >= 1 /\ steplog[1][1] = "download"
            /\ (vpc = "returned" /\ ret) => Len(steplog) = Len(Steps)

C8_Witness ==
  /\ Batch /\ run = 2 /\ ~everTransient /\ pc = "exit0"
  /\ prev[1] = "ok" /\ prev[2] = "failed"
  /\ results = <<"skipped", "succeeded">>
  /\ DOMAIN store = {ExistsName(1), ExistsName(2)}
  /\ store[ExistsName(1)] = "old" /\ store[ExistsName(2)] = "new"

\* C9 -- Sequential processing: process_video is called for the enumerated
\* identifiers in enumeration order, once per position (all of them when the
\* run completes); a call begins only when the previous call has ended and
\* no workspace exists; at most one call is active and at most one workspace
\* exists, the one of the active call.
C9_Sequential ==
  /\ Batch => IsPrefix(invoked, videos)
  /\ (Batch /\ pc = "exit0") => invoked = videos
  /\ Len(invoked) - Len(results) \in {0, 1}
  /\ (Len(invoked) - Len(results) = 1) <=> InCall
  /\ Cardinality(dirs) <= 1
  /\ dirs # {} => (dirs = {ws} /\ InCall)
  /\ vpc \in {"idle", "check", "acquire", "returned"} => (dirs = {} /\ files = {})
  /\ \A f \in files : f[1] \in dirs

C9_Witness ==
  /\ Batch /\ pc = "loop" /\ idx = 3
  /\ invoked = <<1, 2, 3>> /\ Len(results) = 2
  /\ vpc = "extract" /\ dirs = {ws}

\* C10 -- Existence check: it answers True exactly when the lookup returned;
\* NotFound and a transient error both answer False, the call then goes
\* through the pipeline, and a call that returns True this way has replaced
\* whatever was stored under the name, leaving every other artifact alone.
C10_ExistenceCheck ==
  /\ (vpc \notin {"idle", "check"}) =>
       /\ lookup \in {"found", "notfound", "error"}
       /\ lookup = "found" <=> (vpc = "returned" /\ ws = NoDir)
       /\ lookup = "found" <=> ExistsName(cur) \in DOMAIN storeAtCall /\ lookup # "error"
  /\ (vpc = "returned" /\ ret /\ lookup \in {"notfound", "error"}) =>
       /\ ExistsName(cur) \in DOMAIN store
       /\ store[ExistsName(cur)] = "new"
       /\ \A nm \in DOMAIN storeAtCall : nm \in DOMAIN store
       /\ \A nm \in DOMAIN store \ {ExistsName(cur)} :
            nm \in DOMAIN storeAtCall /\ store[nm] = storeAtCall[nm]

C10_Witness ==
  /\ vpc = "returned" /\ ret /\ lookup = "error"
  /\ ExistsName(cur) \in DOMAIN storeAtCall
  /\ storeAtCall[ExistsName(cur)] = "old"
  /\ store[ExistsName(cur)] = "new"

\* C11 -- Startup configuration, as claimed: with a credential missing the
\* process ends with a non-zero status before any store call or item
\* processing, and nothing else ends the process with a failure. The
\* second half fails: an exception leaving process_video (C5) ends the
\* process with a traceback and status 1 although both credentials are set.
C11_ConfigSoleFatal ==
  /\ (~apiKey \/ ~apiSecret) =>
       /\ pc \in {"start", "exit1"}
       /\ fetches = 0 /\ invoked = <<>> /\ lookup = "none" /\ steplog = <<>>
       /\ dirs = {}
  /\ (Ended /\ ExitStatus # 0) => (~apiKey \/ ~apiSecret)

\* C12 -- CLI dispatch: with an argument no listing call is made and
\* process_video is called once, with that argument and nothing else;
\* without one the catalog is listed and the listed identifiers are
\* processed in order, all of them when the run completes.
C12_Dispatch ==
  /\ ~Batch =>
       /\ fetches = 0 /\ videos = <<>>
       /\ pc \notin {"listing", "listed", "loop"}
       /\ IsPrefix(invoked, <<argv1>>)
       /\ pc \in {"single", "exit0", "crashed"} => invoked = <<argv1>>
  /\ Batch =>
       /\ pc # "single"
       /\ pc \in {"listed", "loop", "exit0", "crashed"} => fetches >= 1
       /\ IsPrefix(invoked, videos)
       /\ pc = "exit0" => (invoked = videos /\ Len(results) = Len(videos))

C12_Witness ==
  /\ argv1 = 2 /\ pc = "exit0"
  /\ Len(catalog) = 3
  /\ invoked = <<2>> /\ Len(results) = 1
  /\ fetches = 0

\* C13 -- Exit status, as claimed: with both credentials set the process
\* ends with status 0 however it ends. It does not when an exception
\* leaves process_video (C5): the traceback ends the process with status 1.
C13_ExitZero ==
  (apiKey /\ apiSecret /\ Ended) => ExitStatus = 0

\* C14, as claimed -- the workspace never holds anything but the video
\* file, the audio file and the subtitle file.
C14_ThreeArtifacts ==
  \A f \in files :
    f \in {<<ws, "video", "mp4">>, <<ws, "audio", "wav">>, <<ws, "subtitles", "vtt">>}

\* C14, amended -- the workspace holds at most four files, all inside the
\* temporary directory of the running call: video.mp4, audio.wav, the
\* temporary subtitles.srt and subtitles.vtt; they appear in that order and
\* all four are there when the upload starts.
C14_FourArtifacts ==
  /\ \A f \in files :
       /\ ws # NoDir
       /\ f \in {<<ws, "video", "mp4">>, <<ws, "audio", "wav">>,
                 <<ws, "subtitles", "srt">>, <<ws, "subtitles", "vtt">>}
  /\ <<ws, "subtitles", "vtt">> \in files => <<ws, "subtitles", "srt">> \in files
  /\ <<ws, "subtitles", "srt">> \in files => <<ws, "audio", "wav">> \in files
  /\ <<ws, "audio", "wav">> \in files => <<ws, "video", "mp4">> \in files
  /\ vpc = "upload" => Cardinality(files) = 4

C14_Witness ==
  /\ vpc = "upload" /\ ws # NoDir
  /\ files = {<<ws, "video", "mp4">>, <<ws, "audio", "wav">>,
              <<ws, "subtitles", "srt">>, <<ws, "subtitles", "vtt">>}

\* the size of the pages the store serves, and the length of its chain of
\* pages (an empty catalog is served as one empty page)
PageSize == Min(MaxResults, pageCap)
ChainLen == IF Len(catalog) = 0 THEN 1 ELSE (Len(catalog) + PageSize - 1) \div PageSize

C18_Stops ==
  /\ pc = "listing" => (~listFailed /\ (fetches = 0 \/ nextCursor # NoCursor))
  /\ (Batch /\ pc \in {"listed", "loop", "exit0", "crashed"}) =>
       /\ fetches >= 1
       /\ listFailed \/ nextCursor = NoCursor
       /\ ~listFailed => fetches = ChainLen
  /\ fetches <= ChainLen
  /\ (Batch /\ pc = "exit0") => idx = Len(videos) + 1

\* C18 -- Enumeration termination: the listing loop goes on only while no
\* fetch has raised and every response carried a cursor, it stops at the
\* first response without cursor (the end of the store's chain of pages)
\* or the first raise, so it makes at most as many fetches as the chain has
\* pages; and when every call returns or raises, the process ends, a
\* completed batch run right after its last enumerated identifier.
C18_Termination == []C18_Stops /\ <>Ended

C18_Witness ==
  /\ Batch /\ pc = "exit0" /\ ~listFailed
  /\ pageCap = 1 /\ Len(catalog) = 3
  /\ fetches = 3 /\ videos = <<1, 2, 3>> /\ idx = 4

\* C19 -- Partial enumeration: when the k-th fetch raises, get_all_videos
\* raises nothing and returns the identifiers of pages 1..k-1 in order
\* (none when k = 1); the batch loop then runs over exactly those, and the
\* identifiers of page k and later are neither processed nor counted.
C19_PartialEnumeration ==
  (Batch /\ listFailed) =>
    /\ pc \in {"listed", "loop", "exit0", "crashed"}
    /\ videos = SubSeq(catalog, 1, Min(Len(catalog), (fetches - 1) * PageSize))
    /\ fetches = 1 => videos = <<>>
    /\ IsPrefix(invoked, videos)
    /\ Len(results) + (IF InCall THEN 1 ELSE 0) = Len(invoked)
    /\ pc = "crashed" => vpc = "raised"
    /\ pc \in {"loop", "exit0"} => processed + failed = Len(results)
    /\ pc = "exit0" =>
         /\ invoked = videos
         /\ processed + failed = Len(videos)

C19_Witness ==
  /\ Batch /\ listFailed /\ pc = "exit0"
  /\ pageCap = 1 /\ Len(catalog) = 3 /\ fetches = 2
  /\ videos = <<1>> /\ invoked = <<1>>
  /\ processed + failed = 1

\* the enumerated identifiers that have their subtitle artifact
WithArtifact == {i \in Range(videos) : ExistsName(i) \in DOMAIN store}

\* C20 -- Success implies presence: when process_video returns True, the
\* artifact the existence check looks up for that identifier is in the
\* store; hence in a batch run the enumerated identifiers that have their
\* artifact are never fewer than the succeeded count.
C20_SuccessImpliesArtifact ==
  /\ (vpc = "returned" /\ ret) => ExistsName(cur) \in DOMAIN store
  /\ (Batch /\ pc \in {"loop", "exit0"}) => Cardinality(WithArtifact) >= processed

C20_Witness ==
  /\ Batch /\ pc = "exit0"
  /\ results = <<"skipped", "succeeded", "failed">>
  /\ processed = 2
  /\ Cardinality(WithArtifact) = 2

\* the number a run of digit characters stands for
RECURSIVE NumberOf(_)
NumberOf(chars) ==
  IF chars = <<>> THEN 0
  ELSE 10 * NumberOf(SubSeq(chars, 1, Len(chars) - 1))
         + (CHOOSE d \in 0 .. 9 : DigitChars[d + 1] = chars[Len(chars)])

IsDigits(chars) == \A k \in 1 .. Len(chars) : \E d \in 1 .. 10 : chars[k] = DigitChars[d]

\* C17 -- Timestamp formatter, as claimed: for an offset of tsIn whole
\* milliseconds the string is HH:MM:SS,mmm with at least two hour digits,
\* hours = tsIn div 3600000, minutes and seconds below 60, milliseconds
\* below 1000, and the four fields add up to tsIn; 0 gives 00:00:00,000 and
\* 3661.5 s gives 01:01:01,500.
C17_TimestampExact ==
  fpc = "done" =>
    LET n == Len(tsOut)
        hh == SubSeq(tsOut, 1, n - 10)
        mm == SubSeq(tsOut, n - 8, n - 7)
        ss == SubSeq(tsOut, n - 5, n - 4)
        mmm == SubSeq(tsOut, n - 2, n)
    IN /\ n >= 12
       /\ tsOut[n - 9] = ":" /\ tsOut[n - 6] = ":" /\ tsOut[n - 3] = ","
       /\ IsDigits(hh) /\ IsDigits(mm) /\ IsDigits(ss) /\ IsDigits(mmm)
       /\ NumberOf(hh) = tsIn \div 3600000
       /\ NumberOf(mm) \in 0 .. 59 /\ NumberOf(ss) \in 0 .. 59
       /\ NumberOf(mmm) \in 0 .. 999
       /\ NumberOf(hh) * 3600000 + NumberOf(mm) * 60000 + NumberOf(ss) * 1000
            + NumberOf(mmm) = tsIn
       /\ tsIn = 0 => tsOut = <<"0", "0", ":", "0", "0", ":", "0", "0", ",", "0", "0", "0">>
       /\ tsIn = 3661500 =>
            tsOut = <<"0", "1", ":", "0", "1", ":", "0", "1", ",", "5", "0", "0">>

(* Reading an SRT document back: lines, blocks of lines set apart by empty   *)
(* lines, and in each block a counter, a timing line and the text.          *)
NewlinesOf(doc) == {k \in 1 .. Len(doc) : doc[k] = "\n"}

\* the n-th smallest member of a set of numbers
NthIn(S, n) == CHOOSE p \in S : Cardinality({q \in S : q < p}) = n - 1

LineCount(doc) == Cardinality(NewlinesOf(doc)) + 1
LineFirst(doc, k) == IF k = 1 THEN 1 ELSE NthIn(NewlinesOf(doc), k - 1) + 1
LineLast(doc, k) == IF k = LineCount(doc) THEN Len(doc) ELSE NthIn(NewlinesOf(doc), k) - 1
LineOf(doc, k) == SubSeq(doc, LineFirst(doc, k), LineLast(doc, k))

\* the lines that open a block, and the line a block opened at k ends with
BlockStarts(doc) ==
  {k \in 1 .. LineCount(doc) : LineOf(doc, k) # <<>> /\ (k = 1 \/ LineOf(doc, k - 1) = <<>>)}
BlockLast(doc, k) ==
  CHOOSE j \in k .. LineCount(doc) :
    /\ \A i \in k .. j : LineOf(doc, i) # <<>>
    /\ j = LineCount(doc) \/ LineOf(doc, j + 1) = <<>>

\* HH:MM:SS,mmm in milliseconds, -1 for anything else
ParseTimestamp(chars) ==
  LET n == Len(chars)
  IN IF /\ n >= 12
        /\ chars[n - 9] = ":" /\ chars[n - 6] = ":" /\ chars[n - 3] = ","
        /\ IsDigits(SubSeq(chars, 1, n - 10)) /\ IsDigits(SubSeq(chars, n - 8, n - 7))
        /\ IsDigits(SubSeq(chars, n - 5, n - 4)) /\ IsDigits(SubSeq(chars, n - 2, n))
     THEN NumberOf(SubSeq(chars, 1, n - 10)) * 3600000
            + NumberOf(SubSeq(chars, n - 8, n - 7)) * 60000
            + NumberOf(SubSeq(chars, n - 5, n - 4)) * 1000
            + NumberOf(SubSeq(chars, n - 2, n))
     ELSE -1

\* where " --> " begins in a line, 0 if nowhere
ArrowAt(line) ==
  LET at == {p \in 1 .. Len(line) - 4 : SubSeq(line, p, p + 4) = <<" ", "-", "-", ">", " ">>}
  IN IF at = {} THEN 0 ELSE CHOOSE p \in at : \A q \in at : p <= q

\* the cue of the block opened at line k
ParseCue(doc, k) ==
  LET last == BlockLast(doc, k)
      counter == LineOf(doc, k)
      timing == IF last > k THEN LineOf(doc, k + 1) ELSE <<>>
      arrow == ArrowAt(timing)
  IN [index |-> IF IsDigits(counter) THEN NumberOf(counter) ELSE -1,
      start |-> IF arrow = 0 THEN -1 ELSE ParseTimestamp(SubSeq(timing, 1, arrow - 1)),
      end |-> IF arrow = 0 THEN -1 ELSE ParseTimestamp(SubSeq(timing, arrow + 5, Len(timing))),
      text |-> IF last >= k + 2
               THEN SubSeq(doc, LineFirst(doc, k + 2), LineLast(doc, last)) ELSE <<>>]

ParseSrt(doc) ==
  [n \in 1 .. Cardinality(BlockStarts(doc)) |-> ParseCue(doc, NthIn(BlockStarts(doc), n))]

\* C15 -- Serializer, as claimed: once the document is written, reading it
\* back gives one cue per segment, and the k-th cue carries the counter k and
\* the k-th segment's start and end, to the millisecond, and its trimmed text.
C15_RoundTrip ==
  fpc = "written" =>
    LET cues == ParseSrt(srtDoc)
    IN /\ Len(cues) = Len(segments)
       /\ \A k \in 1 .. Len(segments) :
            cues[k] = [index |-> k, start |-> segments[k].start, end |-> segments[k].end,
                       text |-> Strip(segments[k].text)]

====
